---- MODULE Spec2Model ----
(***************************************************************************)
(* securekit-go: the streaming AES-CTR + HMAC-SHA512 construction          *)
(* (kit/aes/ctr.go) and the .skt file operations built on the stream       *)
(* ciphers.                                                                *)
(*                                                                         *)
(* Scale.  A byte is modelled as one bit (Byte == 0..1) and the sizes of   *)
(* ctr.go are scaled down together: IV_SIZE 16 -> 2, HMAC_SIZE 64 -> 6,    *)
(* BUFFER_SIZE 16384 -> 7.  The relations the code depends on are kept:    *)
(* BUFFER_SIZE > HMAC_SIZE, IV_SIZE > 1 (a partly read IV exists).         *)
(* The AES-CTR keystream is a fixed function of (key, iv, position); the   *)
(* HMAC is a function of (key, bytes fed) that is collision-free on the    *)
(* messages of the model (every message has fewer than HMAC_SIZE bytes).   *)
(***************************************************************************)
EXTENDS Integers, Sequences, FiniteSets, TLC

VARIABLES
    pc,       \* position of the caller: which call runs / has returned
    plain,    \* the bytes the reader `in` of AESCTREnc delivers
    keyAes,   \* keyAes argument of both calls
    keyHmac,  \* keyHmac argument of both calls
    io,       \* reader/writer behaviour: may calls fail or stall, which failed
    enc,      \* locals of AESCTREnc and the bytes written to its `out`
    stream,   \* the bytes the reader `in` of AESCTRDec delivers
    flip,     \* position of the bit changed between Enc and Dec (0: none)
    dec,      \* locals of AESCTRDec and the bytes written to its `out`
    first,    \* result of the previous AESCTRDec run on the same stream
    fop,      \* one file operation: its arguments, its position, the files
    rnm       \* the renamed file, the key-value store, the last ledger call

vars == <<pc, plain, keyAes, keyHmac, io, enc, stream, flip, dec, first, fop,
          rnm>>

(***************************************************************************)
(* Program constants (scaled, see above) and bounds                        *)
(***************************************************************************)
BUFFER_SIZE == 7
IV_SIZE == 2
V1 == 1
HMAC_SIZE == 6

MaxLen == 2                       \* longest plaintext / ciphertext region
MaxIdle == 3                      \* Read calls in a row that return 0, nil

Byte == 0..1
MaxStream == 1 + IV_SIZE + HMAC_SIZE + MaxLen
ChunkSizes == (HMAC_SIZE + 1)..(HMAC_SIZE + 1 + MaxLen)

KeysAes == {0, 1, 2}              \* 2 stands for a key of unsupported length
KeysHmac == {0, 1}

Min(a, b) == IF a < b THEN a ELSE b

SeqsOfLen(n) == [1..n -> Byte]
SeqsUpTo(n) == UNION {SeqsOfLen(k) : k \in 0..n}

RECURSIVE Pow2(_)
Pow2(n) == IF n = 0 THEN 1 ELSE 2 * Pow2(n - 1)

Xor(a, b) == (a + b) % 2

(***************************************************************************)
(* The primitives of the crypto library                                    *)
(***************************************************************************)
\* aes.NewCipher: fails on a key of unsupported length
ValidAesKey(k) == k \in {0, 1}

\* byte number i (from 0) of the CTR keystream of (key, iv)
Keystream(k, iv, i) == (k + iv[1] + i * iv[2] + (i \div 2)) % 2

\* ctr.XORKeyStream(dst, src) with the stream cipher at position pos
XORKeyStream(k, iv, pos, src) ==
    [j \in 1..Len(src) |-> Xor(src[j], Keystream(k, iv, pos + j - 1))]

RECURSIVE BitsVal(_)
BitsVal(s) ==
    IF s = <<>> THEN 0 ELSE 2 * BitsVal(SubSeq(s, 1, Len(s) - 1)) + s[Len(s)]

\* hmac.Sum(nil) after the bytes msg were written to hmac.New(sha512.New, k)
HmacSum(k, msg) ==
    LET rank == Pow2(Len(msg)) - 1 + BitsVal(msg)
        code == (5 * rank + 3 * k + 1) % Pow2(HMAC_SIZE)
    IN  [i \in 1..HMAC_SIZE |-> (code \div Pow2(i - 1)) % 2]

\* hmac.Equal
HmacEqual(a, b) == a = b

(***************************************************************************)
(* Readers and writers                                                     *)
(***************************************************************************)
\* outcomes of one Read / Write call: it succeeds, or (faulty I/O) may fail
ReadOK == IF io.faulty THEN BOOLEAN ELSE {TRUE}
WriteOK == IF io.faulty THEN BOOLEAN ELSE {TRUE}

\* may a Read call return 0, nil: no byte, no error (the io.Reader contract
\* allows it)
Stalls == IF io.stall THEN BOOLEAN ELSE {FALSE}

\* out.Write(p): appends p, or fails and writes nothing
Written(out, p, ok) == IF ok THEN out \o p ELSE out

\* io.MultiWriter(out, hmac).Write(p): hmac is written only after out
\* accepted p
HmacFed(h, p, ok) == IF ok THEN h \o p ELSE h

Drop(s, n) == SubSeq(s, n + 1, Len(s))

NoEnc == [in |-> <<>>, iv |-> <<>>, ctr |-> 0, hmac |-> <<>>,
          out |-> <<>>, err |-> "none", idle |-> 0]
NoDec == [in |-> <<>>, buf |-> <<>>, iv |-> <<>>, ctr |-> 0, h |-> <<>>,
          mac |-> <<>>, out |-> <<>>, err |-> "none", chunk |-> BUFFER_SIZE,
          peeks |-> 0, idle |-> 0]
NoIO(f) == [faulty |-> f, stall |-> FALSE, rFailed |-> FALSE,
            wFailed |-> FALSE]
NoFirst == [err |-> "none", out |-> <<>>]

\* no file operation is running
NoFile == [pc |-> "idle"]

\* no ledger call was made
NoRnm == [op |-> "idle"]

(***************************************************************************)
(* AESCTREnc                                                               *)
(***************************************************************************)
\* an AESCTREnc that writes no version byte
EncHeaderNoVersion(iv, okV, okIv) == Written(<<>>, iv, okIv)

\* lines 38-43: out.Write([]byte{V1}); w.Write(iv)
EncHeader(iv, okV, okIv) == Written(Written(<<>>, <<V1>>, okV), iv, okIv)

\* lines 24-43: IV, cipher, version byte, IV through the MultiWriter
EncStart ==
    /\ pc = "enc_start"
    /\ \E iv \in SeqsOfLen(IV_SIZE), randOK \in ReadOK,
          okV \in WriteOK, okIv \in WriteOK :
         IF ~randOK
         THEN /\ enc' = [enc EXCEPT !.err = "rand"]
              /\ io' = [io EXCEPT !.rFailed = TRUE]
              /\ pc' = "enc_done"
         ELSE IF ~ValidAesKey(keyAes)
         THEN /\ enc' = [enc EXCEPT !.iv = iv, !.err = "invalid key size"]
              /\ io' = io
              /\ pc' = "enc_done"
         ELSE /\ enc' = [enc EXCEPT
                    !.iv = iv,
                    !.out = EncHeader(iv, okV, okIv),
                    !.hmac = HmacFed(<<>>, iv, okIv)]
              /\ io' = [io EXCEPT !.wFailed = @ \/ ~okV \/ ~okIv]
              /\ pc' = "enc_loop"
    /\ UNCHANGED <<rnm, fop, plain, keyAes, keyHmac, stream, flip, dec, first>>

\* an AESCTREnc that makes a new CTR stream for every chunk
EncChunkRestart(buf) == XORKeyStream(keyAes, enc.iv, 0, buf)

\* the bytes written for one chunk (lines 52-56)
EncChunk(buf) == XORKeyStream(keyAes, enc.iv, enc.ctr, buf)

\* lines 46-65: one iteration of the read loop; the iteration that sees
\* io.EOF also writes the tag and returns.  A Read that returns 0, nil
\* leaves everything as it was and the loop reads again (enc.idle counts
\* these calls).
EncLoop ==
    /\ pc = "enc_loop"
    /\ \E n \in 0..Min(BUFFER_SIZE, Len(enc.in)), eof \in BOOLEAN,
          rok \in ReadOK, wok \in WriteOK, wokTag \in WriteOK :
         /\ eof => n = Len(enc.in)
         /\ (~eof /\ ~io.stall) => n >= 1
         /\ (~eof /\ n = 0) => enc.idle < MaxIdle
         /\ IF ~rok
            THEN /\ n = Min(BUFFER_SIZE, Len(enc.in)) /\ wok /\ wokTag
                 /\ enc' = [enc EXCEPT !.err = "read error"]
                 /\ io' = [io EXCEPT !.rFailed = TRUE]
                 /\ pc' = "enc_done"
            ELSE LET outBuf == EncChunk(SubSeq(enc.in, 1, n))
                     out1 == IF n # 0 THEN Written(enc.out, outBuf, wok)
                             ELSE enc.out
                     h1 == IF n # 0 THEN HmacFed(enc.hmac, outBuf, wok)
                           ELSE enc.hmac
                     wbad == (n # 0 /\ ~wok) \/ (eof /\ ~wokTag)
                 IN  /\ (n = 0 => wok) /\ (~eof => wokTag)
                     /\ enc' = [enc EXCEPT
                           !.in = Drop(enc.in, n),
                           !.ctr = @ + n,
                           !.idle = IF ~eof /\ n = 0 THEN @ + 1 ELSE 0,
                           !.hmac = h1,
                           !.out = IF eof
                                   THEN Written(out1, HmacSum(keyHmac, h1), wokTag)
                                   ELSE out1,
                           !.err = IF eof THEN "nil" ELSE @]
                     /\ io' = [io EXCEPT !.wFailed = @ \/ wbad]
                     /\ pc' = IF eof THEN "enc_done" ELSE "enc_loop"
    /\ UNCHANGED <<rnm, fop, plain, keyAes, keyHmac, stream, flip, dec, first>>

(***************************************************************************)
(* Between the two calls: the stream Enc produced is handed to Dec, as it  *)
(* is or with one bit changed.                                             *)
(***************************************************************************)
FlipAt(s, f) == [i \in 1..Len(s) |-> IF i = f THEN Xor(s[i], 1) ELSE s[i]]

DecReset(s, c) == [NoDec EXCEPT !.in = s, !.chunk = c]

Feed ==
    /\ pc = "enc_done"
    /\ enc.err = "nil"
    /\ \E f \in 0..Len(enc.out) :
         /\ stream' = FlipAt(enc.out, f)
         /\ flip' = f
         /\ dec' = DecReset(FlipAt(enc.out, f), BUFFER_SIZE)
    /\ pc' = "dec_start"
    /\ UNCHANGED <<rnm, fop, plain, keyAes, keyHmac, io, enc, first>>

(***************************************************************************)
(* AESCTRDec                                                               *)
(***************************************************************************)
\* lines 70-81: binary.Read of the version byte, io.ReadFull of the IV.
\* The error of reading a header from s, "nil" when it is complete.
HeaderErr(s) ==
    IF Len(s) = 0 THEN "EOF"
    ELSE IF Len(s) = 1 THEN "EOF"
    ELSE IF Len(s) - 1 < IV_SIZE THEN "unexpected EOF"
    ELSE "nil"

\* lines 70-95: version, IV, cipher, h.Write(iv), the buffered reader.
\* binary.Read and io.ReadFull call Read until they have their bytes or an
\* error: after a Read that returns 0, nil they read again (dec.idle counts
\* these calls).
DecHeader ==
    /\ pc = "dec_start"
    /\ \E rok \in ReadOK, stalled \in Stalls :
         LET s == dec.in
             iv == SubSeq(s, 2, 1 + IV_SIZE)
         IN  IF stalled
             THEN /\ rok /\ dec.idle < MaxIdle
                  /\ dec' = [dec EXCEPT !.idle = @ + 1]
                  /\ io' = io
                  /\ pc' = "dec_start"
             ELSE IF ~rok
             THEN /\ dec' = [dec EXCEPT !.err = "read error"]
                  /\ io' = [io EXCEPT !.rFailed = TRUE]
                  /\ pc' = "dec_done"
             ELSE IF HeaderErr(s) # "nil"
             THEN /\ dec' = [dec EXCEPT !.err = HeaderErr(s), !.in = <<>>]
                  /\ io' = io
                  /\ pc' = "dec_done"
             ELSE IF ~ValidAesKey(keyAes)
             THEN /\ dec' = [dec EXCEPT !.err = "invalid key size",
                                        !.in = Drop(s, 1 + IV_SIZE)]
                  /\ io' = io
                  /\ pc' = "dec_done"
             ELSE /\ dec' = [dec EXCEPT !.iv = iv, !.h = iv, !.idle = 0,
                                        !.in = Drop(s, 1 + IV_SIZE)]
                  /\ io' = io
                  /\ pc' = "dec_loop"
    /\ UNCHANGED <<rnm, fop, plain, keyAes, keyHmac, enc, stream, flip, first>>

\* buf.Peek(n) on a bufio.Reader holding buf over the reader in: the bytes
\* it returns; the error is io.EOF exactly when they are fewer than n
Peek(buf, in, n) == buf \o SubSeq(in, 1, Min(n - Len(buf), Len(in)))

\* a test for the missing tag that is off by one
NotEnoughLeftOffByOne(left) == left < HMAC_SIZE - 1

\* line 110
NotEnoughLeft(left) == left < HMAC_SIZE

\* a limit that holds back one byte less than the tag
DecLimitShort(b) == Len(b) - HMAC_SIZE + 1

\* line 104
DecLimit(b) == Len(b) - HMAC_SIZE

\* line 114: copy(mac, b[left-HMAC_SIZE:left])
DecMac(b, left) == SubSeq(b, left - HMAC_SIZE + 1, left)

\* an AESCTRDec that authenticates all the bytes it peeked
DecAuthWhole(b, limit) == b

\* line 121: the bytes written to h
DecAuth(b, limit) == SubSeq(b, 1, limit)

\* an AESCTRDec that makes a new CTR stream for every chunk
DecChunkRestart(b, limit) ==
    XORKeyStream(keyAes, dec.iv, 0, SubSeq(b, 1, limit))

\* lines 125-128: the bytes written to out
DecChunk(b, limit) == XORKeyStream(keyAes, dec.iv, dec.ctr, SubSeq(b, 1, limit))

\* an AESCTRDec that does not compare the tag
DecVerdictUnchecked(mac, h) == "nil"

\* lines 139-143
DecVerdict(mac, h) ==
    IF HmacEqual(mac, HmacSum(keyHmac, h)) THEN "nil" ELSE "ErrInvalidHMAC"

\* lines 98-143: one iteration of the peek loop; the iteration that breaks
\* also compares the tag and returns.  The bufio.Reader gives up with
\* io.ErrNoProgress when its reader keeps returning 0, nil.
DecLoop ==
    /\ pc = "dec_loop"
    /\ \E rok \in ReadOK, wok \in WriteOK, stalled \in Stalls :
         LET b == Peek(dec.buf, dec.in, dec.chunk)
             rest == Drop(dec.in, Len(b) - Len(dec.buf))
             eof == Len(b) < dec.chunk
             limit == DecLimit(b)
             left == Len(b)
             d0 == [dec EXCEPT !.buf = b, !.in = rest, !.peeks = @ + 1]
         IN  IF stalled
             THEN /\ rok /\ wok
                  /\ dec' = [d0 EXCEPT !.buf = dec.buf, !.in = dec.in,
                                       !.err = "ErrNoProgress"]
                  /\ io' = io
                  /\ pc' = "dec_done"
             ELSE IF ~rok
             THEN /\ wok
                  /\ dec' = [d0 EXCEPT !.buf = dec.buf, !.err = "read error"]
                  /\ io' = [io EXCEPT !.rFailed = TRUE]
                  /\ pc' = "dec_done"
             ELSE IF eof /\ NotEnoughLeft(left)
             THEN /\ wok
                  /\ dec' = [d0 EXCEPT !.err = "not enough left"]
                  /\ io' = io
                  /\ pc' = "dec_done"
             ELSE IF eof /\ left = HMAC_SIZE
             THEN /\ wok
                  /\ dec' = [d0 EXCEPT !.mac = DecMac(b, left),
                                !.err = DecVerdict(DecMac(b, left), dec.h)]
                  /\ io' = io
                  /\ pc' = "dec_done"
             ELSE IF limit < 0
             THEN /\ wok
                  /\ dec' = [d0 EXCEPT !.err = "panic"]
                  /\ io' = io
                  /\ pc' = "dec_done"
             ELSE LET h1 == dec.h \o DecAuth(b, limit)
                      mac1 == IF eof THEN DecMac(b, left) ELSE dec.mac
                  IN  /\ dec' = [d0 EXCEPT
                            !.h = h1,
                            !.buf = Drop(b, limit),
                            !.ctr = @ + limit,
                            !.out = Written(@, DecChunk(b, limit), wok),
                            !.mac = mac1,
                            !.err = IF eof THEN DecVerdict(mac1, h1) ELSE @]
                      /\ io' = [io EXCEPT !.wFailed = @ \/ ~wok]
                      /\ pc' = IF eof THEN "dec_done" ELSE "dec_loop"
    /\ UNCHANGED <<rnm, fop, plain, keyAes, keyHmac, enc, stream, flip, first>>

\* the caller decrypts the same stream once more, with another size of the
\* read buffer
DecAgain ==
    /\ pc = "dec_done"
    /\ first.err = "none"
    /\ first' = [err |-> dec.err, out |-> dec.out]
    /\ \E c \in ChunkSizes \ {dec.chunk} : dec' = DecReset(stream, c)
    /\ pc' = "dec_start"
    /\ UNCHANGED <<rnm, fop, plain, keyAes, keyHmac, io, enc, stream, flip>>

(***************************************************************************)
(* The .skt file operations: RC4/AES/RSA FileEncrypt and FileDecrypt       *)
(*                                                                         *)
(* fop holds the arguments (op, ext, delete, passphrase), the source file  *)
(* (file: the fields of a container, body bytes), and what the operation   *)
(* did: the fields it read from the source (read), the items it wrote to   *)
(* the destination (dest), the body bytes the stream cipher read           *)
(* (bodyRead), which files exist and which handles are open.               *)
(***************************************************************************)
sktExt == ".skt"

SKTAESVersion == <<83, 75, 84, 0, 2>>
SKTRSAVersion == <<83, 75, 84, 1, 2>>
SKTRC4Version == <<83, 75, 84, 2, 1>>

BodyLen == 2                      \* body bytes of the source file

Passphrases == {1, 2}

\* SHA256(passphrase), hash.SHA256(passphrase)
SHA256(p) == 100 + p

EncOps == {"RC4FileEncrypt", "AESFileEncrypt", "RSAFileEncrypt"}
DecOps == {"RC4FileDecrypt", "AESFileDecrypt", "RSAFileDecrypt"}
RSAOps == {"RSAFileEncrypt", "RSAFileDecrypt"}

\* the version tag each decrypt operation passes to beforeDecrypt
VersionOf(op) ==
    CASE op \in {"RC4FileEncrypt", "RC4FileDecrypt"} -> SKTRC4Version
      [] op \in {"AESFileEncrypt", "AESFileDecrypt"} -> SKTAESVersion
      [] OTHER -> SKTRSAVersion

\* the algorithm each operation passes to suite.StreamEnc / StreamDec
AlgoOf(op) ==
    IF op \in {"RC4FileEncrypt", "RC4FileDecrypt"} THEN "RC4" ELSE "AES-256-CTR"

\* return err: the operation ends with this result
Return(s, e) == [s EXCEPT !.pc = "returned", !.err = e]

\* a versionCheck that compares nothing
versionCheckSkipped(file, versionRequirement) == "nil"

\* versionCheck: reads len(versionRequirement) bytes and compares them
versionCheck(file, versionRequirement) ==
    IF file.version # versionRequirement THEN "version mismatch error"
    ELSE "nil"

\* path.Ext(filepath) == sktExt makes encrypt skip the file, and
\* path.Ext(filepath) != sktExt makes decrypt skip it
Skipped(s) ==
    IF s.op \in EncOps THEN s.ext = sktExt ELSE s.ext # sktExt

\* beforeEncrypt: open the source, create the destination
beforeEncrypt(s, openOK, createOK) ==
    IF ~openOK THEN Return(s, "open error")
    ELSE IF ~createOK
    THEN Return([s EXCEPT !.srcOpen = TRUE], "create error")
    ELSE [s EXCEPT !.srcOpen = TRUE, !.destOpen = TRUE,
                   !.destExists = TRUE, !.created = TRUE, !.pc = "prologue"]

\* beforeDecrypt: open the source, check its version, create the destination
beforeDecrypt(s, openOK, createOK) ==
    IF ~openOK THEN Return(s, "open error")
    ELSE LET s1 == [s EXCEPT !.srcOpen = TRUE, !.read = @ \o <<"version">>]
         IN  IF versionCheck(s.file, VersionOf(s.op)) # "nil"
             THEN Return(s1, versionCheck(s.file, VersionOf(s.op)))
             ELSE IF ~createOK THEN Return(s1, "create error")
             ELSE [s1 EXCEPT !.destOpen = TRUE, !.destExists = TRUE,
                             !.created = TRUE, !.pc = "prologue"]

\* the head of every operation, up to the return of beforeEncrypt /
\* beforeDecrypt: the RSA operations read the key file first
Begin(s, keyfileOK, openOK, createOK) ==
    IF s.op \in RSAOps /\ ~keyfileOK THEN Return(s, "keyfile error")
    ELSE IF Skipped(s) THEN Return(s, "nil")
    ELSE IF s.op \in EncOps THEN beforeEncrypt(s, openOK, createOK)
    ELSE beforeDecrypt(s, openOK, createOK)

FileBegin ==
    /\ fop.pc = "entry"
    /\ \E keyfileOK \in BOOLEAN, openOK \in BOOLEAN, createOK \in BOOLEAN :
         fop' = Begin(fop, keyfileOK, openOK, createOK)
    /\ UNCHANGED <<pc, plain, keyAes, keyHmac, io, enc, stream, flip, dec,
                   first, rnm>>

\* RC4FileEncrypt, lines 81-82
RC4EncPrologue(s) ==
    [s EXCEPT !.dest = @ \o <<"version", "tag">>, !.pc = "stream"]

\* AESFileEncrypt, line 126
AESEncPrologue(s) == [s EXCEPT !.dest = @ \o <<"version">>, !.pc = "stream"]

\* RSAFileEncrypt, lines 167-176: wrap a random passphrase, write the
\* envelope
RSAEncPrologue(s, rsaOK) ==
    IF ~rsaOK THEN Return(s, "rsa encrypt error")
    ELSE [s EXCEPT !.dest = @ \o <<"version", "psize", "pbytes">>,
                   !.pc = "stream"]

\* an RC4FileDecrypt that does not compare the stored tag
RC4DecPrologueNoCompare(s) ==
    [s EXCEPT !.read = @ \o <<"tag">>, !.pc = "stream"]

\* RC4FileDecrypt, lines 101-107
RC4DecPrologue(s) ==
    LET s1 == [s EXCEPT !.read = @ \o <<"tag">>]
    IN  IF SHA256(s.passphrase) # s.file.tag
        THEN Return([s1 EXCEPT !.destOpen = FALSE, !.destExists = FALSE],
                    "wrong passphrase")
        ELSE [s1 EXCEPT !.pc = "stream"]

\* AESFileDecrypt: nothing between beforeDecrypt and suite.StreamDec
AESDecPrologue(s) == [s EXCEPT !.pc = "stream"]

\* an RSAFileDecrypt that goes on after a failed unwrap
RSADecPrologueGoesOn(s) ==
    [s EXCEPT !.read = @ \o <<"psize", "pbytes">>, !.pc = "stream"]

\* RSAFileDecrypt, lines 199-206: read the envelope, unwrap the passphrase
RSADecPrologue(s) ==
    LET s1 == [s EXCEPT !.read = @ \o <<"psize", "pbytes">>]
    IN  IF ~s.file.wrapOK THEN Return(s1, "rsa decrypt error")
        ELSE [s1 EXCEPT !.pc = "stream"]

\* between beforeEncrypt / beforeDecrypt and the call of the stream cipher
FilePrologue ==
    /\ fop.pc = "prologue"
    /\ \E rsaOK \in BOOLEAN :
         fop' = CASE fop.op = "RC4FileEncrypt" -> RC4EncPrologue(fop)
                  [] fop.op = "AESFileEncrypt" -> AESEncPrologue(fop)
                  [] fop.op = "RSAFileEncrypt" -> RSAEncPrologue(fop, rsaOK)
                  [] fop.op = "RC4FileDecrypt" -> RC4DecPrologue(fop)
                  [] fop.op = "AESFileDecrypt" -> AESDecPrologue(fop)
                  [] fop.op = "RSAFileDecrypt" -> RSADecPrologue(fop)
    /\ UNCHANGED <<pc, plain, keyAes, keyHmac, io, enc, stream, flip, dec,
                   first, rnm>>

\* aes.AESCTREncrypt / rc4.RC4KeyStream on the body: n body bytes are read
\* through the cipher and written, then the call fails or (n = BodyLen)
\* succeeds
BodyCipher(s, n, ok) ==
    [s EXCEPT !.bodyRead = @ + n,
              !.dest = @ \o [i \in 1..n |-> "body"],
              !.serr = IF ok THEN "nil" ELSE "stream error"]

\* StreamEncrypt
StreamEncrypt(s, algorithm, headOK, n, ok) ==
    IF ~headOK THEN [s EXCEPT !.serr = "write error"]
    ELSE IF algorithm = "AES-256-CTR"
    THEN BodyCipher([s EXCEPT !.dest = @ \o <<"salt">>], n, ok)
    ELSE BodyCipher([s EXCEPT !.dest = @ \o <<"tag">>], n, ok)

\* StreamDecrypt
StreamDecrypt(s, algorithm, headOK, n, ok) ==
    IF ~headOK THEN [s EXCEPT !.serr = "read error"]
    ELSE IF algorithm = "AES-256-CTR"
    THEN BodyCipher([s EXCEPT !.read = @ \o <<"salt">>], n, ok)
    ELSE LET s1 == [s EXCEPT !.read = @ \o <<"stag">>]
         IN  IF SHA256(s.passphrase) # s.file.stag
             THEN [s1 EXCEPT !.serr = "wrong passphrase"]
             ELSE BodyCipher(s1, n, ok)

\* the call err = suite.StreamEnc(...) / suite.StreamDec(...)
FileStream ==
    /\ fop.pc = "stream"
    /\ \E headOK \in BOOLEAN, n \in 0..BodyLen, ok \in BOOLEAN :
         /\ ok => n = BodyLen
         /\ LET s == [fop EXCEPT !.pc = "streamed"]
            IN  fop' = IF fop.op \in EncOps
                       THEN StreamEncrypt(s, AlgoOf(fop.op), headOK, n, ok)
                       ELSE StreamDecrypt(s, AlgoOf(fop.op), headOK, n, ok)
    /\ UNCHANGED <<pc, plain, keyAes, keyHmac, io, enc, stream, flip, dec,
                   first, rnm>>

\* closeFile
closeFile(s) == [s EXCEPT !.srcOpen = FALSE, !.destOpen = FALSE]

\* a deleteFile that does not look at the flag
deleteFileAlways(s, delete) == [s EXCEPT !.srcExists = FALSE]

\* deleteFile(src, delete)
deleteFile(s, delete) == IF delete THEN [s EXCEPT !.srcExists = FALSE] ELSE s

\* the tail of every operation: closeFile, remove the destination after an
\* error, else deleteFile
Finish(s) ==
    IF s.serr # "nil"
    THEN Return([closeFile(s) EXCEPT !.destExists = FALSE], s.serr)
    ELSE Return(deleteFile(closeFile(s), s.delete), "nil")

FileFinish ==
    /\ fop.pc = "streamed"
    /\ fop' = Finish(fop)
    /\ UNCHANGED <<pc, plain, keyAes, keyHmac, io, enc, stream, flip, dec,
                   first, rnm>>

\* the source files: containers with a version tag, the up-front tag of
\* the RC4 format, the tag written by the stream layer, and an envelope the
\* key file unwraps or not
Files ==
    [version : {SKTAESVersion, SKTRSAVersion, SKTRC4Version, <<0, 0, 0, 0, 0>>},
     tag : {SHA256(p) : p \in Passphrases},
     stag : {SHA256(p) : p \in Passphrases},
     wrapOK : BOOLEAN]

FileOp(op, ext, delete, passphrase, file) ==
    [op |-> op, ext |-> ext, delete |-> delete, passphrase |-> passphrase,
     file |-> file, pc |-> "entry", err |-> "none", serr |-> "none",
     read |-> <<>>, dest |-> <<>>, bodyRead |-> 0,
     srcExists |-> TRUE, destExists |-> FALSE, created |-> FALSE,
     srcOpen |-> FALSE, destOpen |-> FALSE]

(***************************************************************************)
(* The rename ledger: Rename and Recover                                   *)
(*                                                                         *)
(* One file in one directory.  A file name is <<tag, rest>>: the id that   *)
(* Rename makes is <<RnmVersion, random string>>, any other name has an    *)
(* empty tag.  The store is a set of entries [id, val] with at most one    *)
(* entry for an id.  rnm holds the name of the file, the store, the last   *)
(* call (op, passphrase, err), the name and the store before that call     *)
(* (prev), the last successful Rename (ren), and whether a file-system,    *)
(* store or key-derivation call has failed so far (failed).                *)
(***************************************************************************)
RnmVersion == "SKTRNMV1"

MaxCalls == 3                     \* ledger calls in one behaviour

RandomStrings == {"r1", "r2"}
Salts == {1, 2}

\* strings.HasPrefix(path.Name(source), RnmVersion)
HasPrefix(name, tag) == name[1] = tag

\* aes.DeriveKey(passphrase, salt, KeyLen): a function of passphrase and salt
DeriveKey(passphrase, salt) == [pass |-> passphrase, salt |-> salt]

\* aes.GCMEncrypt(plaintext, dk, salt): the sealed plaintext, then the salt
GCMEncrypt(plaintext, dk, salt) ==
    [sealed |-> plaintext, key |-> dk, salt |-> salt]

\* aes.GCMDecrypt(ciphertext, dk, salt): fails unless dk is the sealing key
GCMDecryptOK(ciphertext, dk) == ciphertext.key = dk
GCMDecrypt(ciphertext, dk) == ciphertext.sealed

\* base64.URLEncoding.EncodeToString / DecodeString
EncodeToString(ciphertext) == [b64 |-> ciphertext]
DecodeString(val) == val.b64

\* kvdb.DataBase: Get, Set, Delete
dbHas(store, id) == \E e \in store : e.id = id
dbGet(store, id) == (CHOOSE e \in store : e.id = id).val
dbSet(store, id, val) ==
    {e \in store : e.id # id} \cup {[id |-> id, val |-> val]}
dbDelete(store, id) == {e \in store : e.id # id}

\* the result of a call: what it returned, and the state it left
Returns(s, e, name, store, bad) ==
    [s EXCEPT !.err = e, !.name = name, !.store = store,
              !.failed = @ \/ bad]

\* rnm.go, Rename (lines 16-35)
RenameCall(s, passphrase, rand, salt, deriveOK, renameOK, setOK) ==
    LET fileName == s.name
        dk == DeriveKey(passphrase, salt)
        ciphertext == GCMEncrypt(fileName, dk, salt)
        id == <<RnmVersion, rand>>
    IN  IF HasPrefix(fileName, RnmVersion)
        THEN Returns(s, "nil", s.name, s.store, FALSE)
        ELSE IF ~deriveOK
        THEN Returns(s, "derive key error", s.name, s.store, TRUE)
        ELSE IF ~renameOK
        THEN Returns(s, "rename error", s.name, s.store, TRUE)
        ELSE IF ~setOK
        THEN Returns(s, "set error", id, s.store, TRUE)
        ELSE [Returns(s, "nil", id,
                      dbSet(s.store, id, EncodeToString(ciphertext)), FALSE)
                 EXCEPT !.ren = [orig |-> fileName, pass |-> passphrase,
                                 id |-> id]]

\* a Recover that goes on after a failed decryption
RecoverFoundIgnoresAuth(s, passphrase, deriveOK, renameOK, deleteOK) ==
    LET id == s.name
        ciphertext == DecodeString(dbGet(s.store, id))
    IN  IF ~deriveOK
        THEN Returns(s, "derive key error", s.name, s.store, TRUE)
        ELSE IF ~renameOK
        THEN Returns(s, "rename error", s.name, s.store, TRUE)
        ELSE IF ~deleteOK
        THEN Returns(s, "delete error", ciphertext.sealed, s.store, TRUE)
        ELSE Returns(s, "nil", ciphertext.sealed, dbDelete(s.store, id),
                     FALSE)

\* rnm.go, Recover, lines 42-61: the id is in the store
RecoverFound(s, passphrase, deriveOK, renameOK, deleteOK) ==
    LET id == s.name
        ciphertext == DecodeString(dbGet(s.store, id))
        salt == ciphertext.salt
        dk == DeriveKey(passphrase, salt)
    IN  IF ~deriveOK
        THEN Returns(s, "derive key error", s.name, s.store, TRUE)
        ELSE IF ~GCMDecryptOK(ciphertext, dk)
        THEN Returns(s, "cipher: message authentication failed",
                     s.name, s.store, FALSE)
        ELSE IF ~renameOK
        THEN Returns(s, "rename error", s.name, s.store, TRUE)
        ELSE IF ~deleteOK
        THEN Returns(s, "delete error", GCMDecrypt(ciphertext, dk),
                     s.store, TRUE)
        ELSE Returns(s, "nil", GCMDecrypt(ciphertext, dk),
                     dbDelete(s.store, id), FALSE)

\* a Recover that keeps the entry of the id
RecoverCallKeepsEntry(s, passphrase, deriveOK, renameOK, deleteOK) ==
    IF ~HasPrefix(s.name, RnmVersion)
    THEN Returns(s, "nil", s.name, s.store, FALSE)
    ELSE IF dbHas(s.store, s.name)
    THEN [RecoverFound(s, passphrase, deriveOK, renameOK, deleteOK)
             EXCEPT !.store = s.store]
    ELSE Returns(s, "ID not found in Database", s.name, s.store, FALSE)

\* rnm.go, Recover (lines 37-64)
RecoverCall(s, passphrase, deriveOK, renameOK, deleteOK) ==
    IF ~HasPrefix(s.name, RnmVersion)
    THEN Returns(s, "nil", s.name, s.store, FALSE)
    ELSE IF dbHas(s.store, s.name)
    THEN RecoverFound(s, passphrase, deriveOK, renameOK, deleteOK)
    ELSE Returns(s, "ID not found in Database", s.name, s.store, FALSE)

\* part_001, Recover (lines 40-69): no db.Delete, and nil when the id is
\* not in the store
RecoverPart001Call(s, passphrase, deriveOK, renameOK) ==
    LET id == s.name
        ciphertext == DecodeString(dbGet(s.store, id))
        dk == DeriveKey(passphrase, ciphertext.salt)
    IN  IF ~HasPrefix(id, RnmVersion)
        THEN Returns(s, "nil", s.name, s.store, FALSE)
        ELSE IF ~dbHas(s.store, id)
        THEN Returns(s, "nil", s.name, s.store, FALSE)
        ELSE IF ~deriveOK
        THEN Returns(s, "derive key error", s.name, s.store, TRUE)
        ELSE IF ~GCMDecryptOK(ciphertext, dk)
        THEN Returns(s, "cipher: message authentication failed",
                     s.name, s.store, FALSE)
        ELSE IF ~renameOK
        THEN Returns(s, "rename error", s.name, s.store, TRUE)
        ELSE Returns(s, "nil", GCMDecrypt(ciphertext, dk), s.store, FALSE)

\* a call starts: the caller's passphrase, the state before the call
Called(s, op, passphrase) ==
    [s EXCEPT !.op = op, !.pass = passphrase, !.calls = @ + 1,
              !.prev = [name |-> s.name, store |-> s.store]]

Rename ==
    /\ rnm.op # "idle"
    /\ rnm.calls < MaxCalls
    /\ \E passphrase \in Passphrases, rand \in RandomStrings, salt \in Salts,
          deriveOK \in BOOLEAN, renameOK \in BOOLEAN, setOK \in BOOLEAN :
         rnm' = RenameCall(Called(rnm, "Rename", passphrase), passphrase,
                           rand, salt, deriveOK, renameOK, setOK)
    /\ UNCHANGED <<pc, plain, keyAes, keyHmac, io, enc, stream, flip, dec,
                   first, fop>>

Recover ==
    /\ rnm.op # "idle"
    /\ rnm.calls < MaxCalls
    /\ \E passphrase \in Passphrases,
          deriveOK \in BOOLEAN, renameOK \in BOOLEAN, deleteOK \in BOOLEAN :
         rnm' = RecoverCall(Called(rnm, "Recover", passphrase), passphrase,
                            deriveOK, renameOK, deleteOK)
    /\ UNCHANGED <<pc, plain, keyAes, keyHmac, io, enc, stream, flip, dec,
                   first, fop>>

\* part_001, Rename (lines 15-38): the same calls in the same order
RenamePart001 ==
    /\ rnm.op # "idle"
    /\ rnm.calls < MaxCalls
    /\ \E passphrase \in Passphrases, rand \in RandomStrings, salt \in Salts,
          deriveOK \in BOOLEAN, renameOK \in BOOLEAN, setOK \in BOOLEAN :
         rnm' = RenameCall(Called(rnm, "Rename", passphrase), passphrase,
                           rand, salt, deriveOK, renameOK, setOK)
    /\ UNCHANGED <<pc, plain, keyAes, keyHmac, io, enc, stream, flip, dec,
                   first, fop>>

RecoverPart001 ==
    /\ rnm.op # "idle"
    /\ rnm.calls < MaxCalls
    /\ \E passphrase \in Passphrases,
          deriveOK \in BOOLEAN, renameOK \in BOOLEAN :
         rnm' = RecoverPart001Call(Called(rnm, "Recover", passphrase),
                                   passphrase, deriveOK, renameOK)
    /\ UNCHANGED <<pc, plain, keyAes, keyHmac, io, enc, stream, flip, dec,
                   first, fop>>

NoName == <<"", "">>

\* the ledger before any call: an empty store, and a file with an ordinary
\* name or with a name that carries the tag
Ledger(name) ==
    [op |-> "none", pass |-> 0, err |-> "none", calls |-> 0,
     name |-> name, store |-> {},
     prev |-> [name |-> name, store |-> {}],
     ren |-> [orig |-> NoName, pass |-> 0, id |-> NoName],
     failed |-> FALSE]

(***************************************************************************)
(* Specifications                                                          *)
(***************************************************************************)
InitWith(faulty) ==
    /\ pc = "enc_start"
    /\ plain \in SeqsUpTo(MaxLen)
    /\ keyAes \in KeysAes
    /\ keyHmac \in KeysHmac
    /\ io = NoIO(faulty)
    /\ enc = [NoEnc EXCEPT !.in = plain]
    /\ stream = <<>>
    /\ flip = 0
    /\ dec = NoDec
    /\ first = NoFirst
    /\ fop = NoFile
    /\ rnm = NoRnm

\* encrypt, then decrypt what was written; readers and writers never fail
Init == InitWith(FALSE)

Next == EncStart \/ EncLoop \/ Feed \/ DecHeader \/ DecLoop

Spec == Init /\ [][Next]_vars

\* the same, over readers and writers whose calls may fail
InitIO == InitWith(TRUE)

SpecIO == InitIO /\ [][Next]_vars

\* the same, over readers that may return 0, nil
InitStall ==
    /\ pc = "enc_start"
    /\ plain \in SeqsUpTo(MaxLen)
    /\ keyAes \in KeysAes
    /\ keyHmac \in KeysHmac
    /\ io = [NoIO(FALSE) EXCEPT !.stall = TRUE]
    /\ enc = [NoEnc EXCEPT !.in = plain]
    /\ stream = <<>>
    /\ flip = 0
    /\ dec = NoDec
    /\ first = NoFirst
    /\ fop = NoFile
    /\ rnm = NoRnm

SpecStall == InitStall /\ [][Next]_vars

\* AESCTRDec on an arbitrary input stream
InitDec ==
    /\ pc = "dec_start"
    /\ plain = <<>>
    /\ keyAes \in KeysAes
    /\ keyHmac \in KeysHmac
    /\ io = NoIO(FALSE)
    /\ enc = NoEnc
    /\ stream \in SeqsUpTo(MaxStream)
    /\ flip = 0
    /\ dec = DecReset(stream, BUFFER_SIZE)
    /\ first = NoFirst
    /\ fop = NoFile
    /\ rnm = NoRnm

NextDec == DecHeader \/ DecLoop \/ DecAgain

SpecDec == InitDec /\ [][NextDec]_vars

\* one file operation on one source file
InitFile ==
    /\ pc = "idle"
    /\ plain = <<>>
    /\ keyAes = 0
    /\ keyHmac = 0
    /\ io = NoIO(FALSE)
    /\ enc = NoEnc
    /\ stream = <<>>
    /\ flip = 0
    /\ dec = NoDec
    /\ first = NoFirst
    /\ \E op \in EncOps \cup DecOps, ext \in {sktExt, ".txt"},
          delete \in BOOLEAN, file \in Files :
         fop = FileOp(op, ext, delete, 1, file)
    /\ rnm = NoRnm

NextFile == FileBegin \/ FilePrologue \/ FileStream \/ FileFinish

SpecFile == InitFile /\ [][NextFile]_vars


\* Rename and Recover of kit/rnm.go on one file
InitRnm ==
    /\ pc = "idle"
    /\ plain = <<>>
    /\ keyAes = 0
    /\ keyHmac = 0
    /\ io = NoIO(FALSE)
    /\ enc = NoEnc
    /\ stream = <<>>
    /\ flip = 0
    /\ dec = NoDec
    /\ first = NoFirst
    /\ fop = NoFile
    /\ \E name \in {<<"", "a.txt">>, <<"", "b">>, <<RnmVersion, "r1">>} :
         rnm = Ledger(name)

NextRnm == Rename \/ Recover

SpecRnm == InitRnm /\ [][NextRnm]_vars

\* Rename and Recover of the other copy of the file (part_001)
NextRnmPart001 == RenamePart001 \/ RecoverPart001

SpecRnmPart001 == InitRnm /\ [][NextRnmPart001]_vars


(***************************************************************************)
(* Properties of AESCTREnc / AESCTRDec                                     *)
(***************************************************************************)
\* the stream AESCTREnc writes for the plaintext p with the IV iv
Ciphertext(p, iv) == XORKeyStream(keyAes, iv, 0, p)
Frame(p, iv) ==
    <<V1>> \o iv \o Ciphertext(p, iv)
           \o HmacSum(keyHmac, iv \o Ciphertext(p, iv))

Returned == pc = "dec_done"

\* C1: decrypting, with the same keys, the unchanged stream that AESCTREnc
\* wrote for the plaintext returns success and writes exactly the plaintext
\* (the empty plaintext included).
RoundTrip ==
    (Returned /\ flip = 0) => (dec.err = "nil" /\ dec.out = plain)

RoundTripWitness ==
    /\ Returned /\ flip = 0
    /\ Len(plain) = MaxLen /\ dec.peeks >= 2
    /\ dec.err = "nil" /\ dec.out = plain

\* C2: after one bit of the ciphertext region or of the tag region of an
\* encrypted stream was changed, AESCTRDec returns ErrInvalidHMAC.
InCiphertextOrTag(f) == f > 1 + IV_SIZE

TamperDetected ==
    (Returned /\ InCiphertextOrTag(flip)) => dec.err = "ErrInvalidHMAC"

TamperDetectedWitness ==
    /\ Returned
    /\ InCiphertextOrTag(flip) /\ flip <= Len(stream) - HMAC_SIZE
    /\ dec.out # plain
    /\ dec.err = "ErrInvalidHMAC"

\* C3: a call during which a Read or a Write failed does not return success.
IOFailureSurfaced ==
    /\ (pc = "enc_done" /\ (io.rFailed \/ io.wFailed)) => enc.err # "nil"
    /\ (pc = "dec_done" /\ (io.rFailed \/ io.wFailed)) => dec.err # "nil"

\* C4: AESCTRDec fails, and decrypts nothing, when the first byte of its
\* input is not the version V1.
VersionValidated ==
    (Returned /\ Len(stream) >= 1 /\ stream[1] # V1) =>
        (dec.err # "nil" /\ dec.out = <<>>)

\* C5: on an input shorter than 1 + IV_SIZE + HMAC_SIZE bytes AESCTRDec
\* (valid key) returns on its first loop iteration at the latest, with a
\* malformed-input error: never success, never ErrInvalidHMAC, no panic.
Truncated == Len(stream) < 1 + IV_SIZE + HMAC_SIZE

MalformedErrors == {"EOF", "unexpected EOF", "not enough left"}

TruncatedIsMalformed ==
    (Truncated /\ ValidAesKey(keyAes)) =>
        /\ Returned => (dec.err \in MalformedErrors /\ dec.out = <<>>)
        /\ pc = "dec_loop" => dec.peeks = 0

TruncatedIsMalformedWitness ==
    /\ Returned /\ ValidAesKey(keyAes)
    /\ Len(stream) = IV_SIZE + HMAC_SIZE
    /\ dec.err = "not enough left"

\* C7: AESCTRDec, run again on the same stream with another buffer size
\* larger than HMAC_SIZE, writes the same bytes and returns the same
\* verdict.
ChunkIndependent ==
    (Returned /\ first.err # "none") =>
        (dec.err = first.err /\ dec.out = first.out)

ChunkIndependentWitness ==
    /\ Returned /\ first.err = "nil"
    /\ dec.chunk = BUFFER_SIZE + MaxLen
    /\ dec.peeks = 1
    /\ Len(dec.out) = MaxLen /\ dec.out = first.out /\ dec.err = "nil"

\* C8: AESCTREnc writes the version byte, the IV, the ciphertext of the
\* input in input order and the tag, and nothing else: while it runs its
\* output is the frame of the bytes read so far without the tag, and when
\* it has returned its output is the whole frame, of
\* 1 + IV_SIZE + len(input) + HMAC_SIZE bytes.
EncLayout ==
    /\ pc = "enc_loop" =>
         LET read == SubSeq(plain, 1, Len(plain) - Len(enc.in))
         IN  enc.out = <<V1>> \o enc.iv \o Ciphertext(read, enc.iv)
    /\ (pc \notin {"enc_start", "enc_loop"} /\ enc.err = "nil") =>
         /\ enc.out = Frame(plain, enc.iv)
         /\ Len(enc.out) = 1 + IV_SIZE + Len(plain) + HMAC_SIZE

EncLayoutWitness ==
    /\ pc = "enc_done" /\ enc.err = "nil"
    /\ Len(plain) = MaxLen
    /\ enc.out = Frame(plain, enc.iv)
    /\ Ciphertext(plain, enc.iv) # plain

(***************************************************************************)
(* Properties of the file operations                                       *)
(***************************************************************************)
Range(q) == {q[i] : i \in 1..Len(q)}

FileReturned == fop.pc = "returned"

\* C6: a file operation that returns an error after it created the
\* destination file leaves no destination file.
DestRemovedOnFailure ==
    (FileReturned /\ fop.err # "nil" /\ fop.created) => ~fop.destExists

\* C9: in RC4FileDecrypt and in the StreamDecrypt it calls, when a stored
\* passphrase tag differs from SHA256(passphrase) no body byte is ever read
\* through the keystream and nothing is ever written to the destination,
\* and the call that read the differing tag returns 'wrong passphrase'.
RC4Decrypting == fop.pc # "idle" /\ fop.op = "RC4FileDecrypt"
TagDiffers == fop.file.tag # SHA256(fop.passphrase)
StreamTagDiffers == fop.file.stag # SHA256(fop.passphrase)

WrongPassphraseFirst ==
    (RC4Decrypting /\ (TagDiffers \/ StreamTagDiffers)) =>
        /\ fop.bodyRead = 0
        /\ fop.dest = <<>>
        /\ (TagDiffers /\ "tag" \in Range(fop.read) /\ FileReturned)
              => fop.err = "wrong passphrase"
        /\ (~TagDiffers /\ "stag" \in Range(fop.read) /\ FileReturned)
              => fop.err = "wrong passphrase"

WrongPassphraseFirstWitness ==
    /\ RC4Decrypting /\ FileReturned
    /\ TagDiffers /\ ~StreamTagDiffers
    /\ "tag" \in Range(fop.read)
    /\ fop.err = "wrong passphrase" /\ fop.bodyRead = 0 /\ fop.dest = <<>>

\* C10: in RSAFileDecrypt, when the private key does not unwrap the secret,
\* the stream cipher is never called, no body byte is read, nothing is
\* written to the destination, and the operation returns the unwrap error
\* once it has read the envelope.
UnwrapFails ==
    fop.pc # "idle" /\ fop.op = "RSAFileDecrypt" /\ ~fop.file.wrapOK

UnwrapFailsFirst ==
    UnwrapFails =>
        /\ fop.pc \notin {"stream", "streamed"}
        /\ fop.bodyRead = 0
        /\ fop.dest = <<>>
        /\ ("pbytes" \in Range(fop.read) /\ FileReturned)
              => fop.err = "rsa decrypt error"

UnwrapFailsFirstWitness ==
    /\ UnwrapFails /\ FileReturned
    /\ "pbytes" \in Range(fop.read)
    /\ fop.err = "rsa decrypt error" /\ fop.bodyRead = 0 /\ fop.dest = <<>>

\* C11: a file decrypt operation on a .skt file whose leading bytes are not
\* the version tag it expects never creates the destination file, decrypts
\* nothing and keeps the source file, and once it has read the leading
\* bytes it returns the version-mismatch error.
UnknownFormat ==
    /\ fop.pc # "idle" /\ fop.op \in DecOps /\ fop.ext = sktExt
    /\ fop.file.version # VersionOf(fop.op)

UnknownFormatRejected ==
    UnknownFormat =>
        /\ fop.pc \in {"entry", "returned"}
        /\ ~fop.created /\ ~fop.destExists
        /\ fop.bodyRead = 0 /\ fop.dest = <<>>
        /\ fop.srcExists
        /\ FileReturned => fop.err # "nil"
        /\ (FileReturned /\ "version" \in Range(fop.read))
              => fop.err = "version mismatch error"

UnknownFormatRejectedWitness ==
    /\ UnknownFormat /\ FileReturned
    /\ fop.op = "AESFileDecrypt" /\ fop.file.version = SKTRC4Version
    /\ fop.delete
    /\ fop.err = "version mismatch error"
    /\ fop.srcExists /\ ~fop.destExists

(***************************************************************************)
(* Properties of the rename ledger                                         *)
(***************************************************************************)
Recovered == rnm.op = "Recover"
Renamed == rnm.op = "Rename"

\* the file carried the tag when the last call started
WasTagged == HasPrefix(rnm.prev.name, RnmVersion)
\* ... and the store held an entry for its name
WasInStore == dbHas(rnm.prev.store, rnm.prev.name)

Unchanged == rnm.name = rnm.prev.name /\ rnm.store = rnm.prev.store

\* C12: Recover on a file whose name carries the tag and whose id has no
\* entry in the store returns the 'id not found' error and does not rename
\* the file.
IdNotFound ==
    (Recovered /\ WasTagged /\ ~WasInStore) =>
        (rnm.err = "ID not found in Database" /\ rnm.name = rnm.prev.name)

WrongPassphrase ==
    /\ Recovered /\ WasTagged /\ WasInStore
    /\ DecodeString(dbGet(rnm.prev.store, rnm.prev.name)).key.pass # rnm.pass

WrongPassphraseIsAuthError ==
    (WrongPassphrase /\ rnm.err # "derive key error") =>
        /\ rnm.err = "cipher: message authentication failed"
        /\ Unchanged

WrongPassphraseIsAuthErrorWitness ==
    /\ WrongPassphrase
    /\ rnm.err = "cipher: message authentication failed"
    /\ Unchanged /\ dbHas(rnm.store, rnm.name)

\* C20: after Rename has returned, either the file has the name it had and
\* the store is unchanged, or the file is named by a new id and the store
\* maps that id to the encoded encrypted name; after an error the file has
\* the name it had.
RenamedWithEntry ==
    /\ ~WasTagged /\ HasPrefix(rnm.name, RnmVersion)
    /\ \E salt \in Salts :
         rnm.store =
             dbSet(rnm.prev.store, rnm.name,
                   EncodeToString(GCMEncrypt(rnm.prev.name,
                                             DeriveKey(rnm.pass, salt), salt)))

RenameAllOrNothing ==
    Renamed =>
        /\ Unchanged \/ RenamedWithEntry
        /\ rnm.err # "nil" => rnm.name = rnm.prev.name

(***************************************************************************)
(* Properties of the running HMAC and of the peek loop                     *)
(***************************************************************************)
\* AESCTRDec computed h.Sum(nil): it returned the verdict of hmac.Equal
Finalised == pc = "dec_done" /\ dec.err \in {"nil", "ErrInvalidHMAC"}

\* the bytes of a stream between its header and its trailing tag
CipherRegion(s) == SubSeq(s, 2 + IV_SIZE, Len(s) - HMAC_SIZE)

\* C15: when AESCTREnc computes the tag (and every write before it went
\* through) its HMAC has been fed the IV and then the ciphertext of the whole
\* plaintext; when AESCTRDec computes the tag its HMAC has been fed the IV of
\* the stream and then the bytes between the IV and the last HMAC_SIZE bytes:
\* each once, in order, without the version byte and without the tag.
HmacFedExactly ==
    /\ (pc = "enc_done" /\ enc.err = "nil" /\ ~io.wFailed) =>
          /\ enc.hmac = enc.iv \o Ciphertext(plain, enc.iv)
          /\ enc.out = <<V1>> \o enc.hmac \o HmacSum(keyHmac, enc.hmac)
    /\ Finalised =>
          dec.h = SubSeq(stream, 2, 1 + IV_SIZE) \o CipherRegion(stream)

HmacFedExactlyWitness ==
    /\ Finalised /\ dec.err = "nil" /\ dec.peeks > MaxLen
    /\ Len(plain) = MaxLen
    /\ dec.h = enc.hmac /\ Len(dec.h) = IV_SIZE + MaxLen

\* the bytes of the stream after the version byte and the IV
Body == Drop(stream, 1 + IV_SIZE)

\* AESCTRDec went past the header
InPeekLoop == pc \in {"dec_loop", "dec_done"} /\ dec.iv # <<>>

Max(a, b) == IF a > b THEN a ELSE b

\* C16: in the peek loop of AESCTRDec the bytes authenticated, decrypted
\* and written are the same prefix of the bytes after the header, the rest
\* of them is buffered or unread, after every iteration that goes on
\* HMAC_SIZE bytes are buffered, the last HMAC_SIZE bytes of the stream are
\* never decrypted or written, and the tag compared is the last HMAC_SIZE
\* bytes of the stream.
HoldBack ==
    /\ InPeekLoop =>
          LET done == SubSeq(Body, 1, Len(dec.out))
          IN  /\ dec.ctr = Len(dec.out)
              /\ dec.h = dec.iv \o done
              /\ dec.out = XORKeyStream(keyAes, dec.iv, 0, done)
              /\ Body = done \o dec.buf \o dec.in
              /\ Len(dec.out) <= Max(0, Len(Body) - HMAC_SIZE)
    /\ (pc = "dec_loop" /\ dec.peeks >= 1) => Len(dec.buf) = HMAC_SIZE
    /\ Finalised =>
          /\ dec.mac = SubSeq(stream, Len(stream) - HMAC_SIZE + 1, Len(stream))
          /\ Len(dec.out) = Len(Body) - HMAC_SIZE

HoldBackWitness ==
    /\ pc = "dec_loop" /\ dec.peeks >= 1 /\ dec.chunk = BUFFER_SIZE
    /\ Len(dec.out) = 1 /\ Len(dec.buf) = HMAC_SIZE /\ Len(dec.in) = 1

(***************************************************************************)
(* Properties of the file handles and of the source file                   *)
(***************************************************************************)
\* C17: when a file operation has returned, the handles it opened on the
\* source and on the destination are closed.
HandlesClosed == FileReturned => (~fop.srcOpen /\ ~fop.destOpen)

\* C19: the source file is gone only after an operation that was called
\* with delete = true, did not skip the file and returned nil; after an
\* error, with delete = false, or for a skipped file, it still exists.
SourceRemovedOnlyOnSuccess ==
    /\ ~fop.srcExists =>
          (FileReturned /\ fop.delete /\ fop.err = "nil" /\ ~Skipped(fop))
    /\ (FileReturned /\ (fop.err # "nil" \/ ~fop.delete \/ Skipped(fop))) =>
          fop.srcExists

SourceRemovedOnlyOnSuccessWitness ==
    /\ FileReturned /\ fop.delete /\ fop.err = "nil" /\ ~fop.srcExists
    /\ fop.op = "AESFileDecrypt" /\ fop.destExists

(***************************************************************************)
(* Termination of AESCTREnc and AESCTRDec                                  *)
(***************************************************************************)
\* C18: AESCTREnc and AESCTRDec do not go on reading from a reader that
\* makes no progress: after MaxIdle Read calls in a row that returned no
\* byte and no error they have returned.
ReturnsWithoutProgress ==
    /\ pc = "enc_loop" => enc.idle < MaxIdle
    /\ pc = "dec_start" => dec.idle < MaxIdle

\* every iteration of the two loops that goes on has consumed at least one
\* byte of the input
LoopsConsume ==
    [][/\ (pc = "enc_loop" /\ pc' = "enc_loop") =>
              Len(enc'.in) < Len(enc.in)
       /\ (pc = "dec_loop" /\ pc' = "dec_loop") =>
              dec'.ctr > dec.ctr]_vars

====
